---- MODULE Spec2Model ----
(***************************************************************************)
(* A model of the Athena API client (src/api_client.go): the reservation   *)
(* operations CreateIPAMReservation and DeleteIPAMReservation and the      *)
(* request / poll / resolve job protocol they run (handleAsyncRequest,     *)
(* waitForJob, handleAsyncRequestAndFetchManagdObject).                    *)
(*                                                                         *)
(* Strings the code builds, splits or parses (URLs, decimal ids) are       *)
(* sequences of one-character strings; strings the code only compares or   *)
(* copies (job states, messages, host names) are TLA+ strings.             *)
(***************************************************************************)
EXTENDS Integers, Sequences, FiniteSets, TLC

VARIABLES
    pc,                    \* position of the running operation
    call,                  \* the operation invoked and its argument
    newIPAMRecord,         \* the caller's record, as CreateIPAMReservation rewrites it
    req,                   \* the request handed to the job protocol engine
    jobID,                 \* waitForJob's parameter
    jobStatus,             \* the engine's jobStatus variable
    jobStatusDescription,  \* waitForJob's loop variable
    elapsed,               \* time.Since(startTime), in ms
    result,                \* what the operation returned
    jobSeq,                \* server: the states the job will report, next first
    firstTerminal,         \* server: position of the job's first terminal state, 0 if none
    submitState,           \* observation: the job state carried by the submit response
    observed,              \* observation: the last status a fetch decoded
    lookup,                \* observation: the answer to the default workspace lookup
    requests,              \* observation: the requests issued, status fetches excepted
    fetches,               \* observation: the number of status fetches issued
    fetchURLs,             \* observation: the URLs the status fetches went to
    sleeps,                \* observation: the number of sleeps taken
    lastRes,               \* observation: the response to the most recent request
    served,                \* observation: the reservation a read was answered with
    d,                     \* the binding adapter's resource data (schema.ResourceData)
    asyncReturn,           \* what handleAsyncRequest returned: (jobStatus, err), or a panic
    conc                   \* the frames, jobs and schedule of two concurrent calls

\* the variables of a single call
callVars == <<pc, call, newIPAMRecord, req, jobID, jobStatus, jobStatusDescription,
              elapsed, result, jobSeq, firstTerminal, submitState, observed,
              lookup, requests, fetches, fetchURLs, sleeps, lastRes, served, d,
              asyncReturn>>

vars == <<pc, call, newIPAMRecord, req, jobID, jobStatus, jobStatusDescription,
          elapsed, result, jobSeq, firstTerminal, submitState, observed,
          lookup, requests, fetches, fetchURLs, sleeps, lastRes, served, d,
          asyncReturn, conc>>

(***************************************************************************)
(* Program constants                                                       *)
(***************************************************************************)
ApiVersion == <<"a","p","i","/","v","3">>
ApiNamespace == <<"o","n","e","f","u","s","e">>
WorkspaceResourceType == <<"w","o","r","k","s","p","a","c","e","s">>
ModulePolicyResourceType == <<"m","o","d","u","l","e","P","o","l","i","c","i","e","s">>
IPAMReservationResourceType ==
    <<"i","p","a","m","R","e","s","e","r","v","a","t","i","o","n","s">>
JobStatusResourceType == <<"j","o","b","S","t","a","t","u","s">>
RenderTemplateType == <<"t","e","m","p","l","a","t","e","T","e","s","t","e","r">>
JobSuccess == "Successful"
JobFailed == "Failed"
PollingTimeoutMS == 3600000
PollingIntervalMS == 5000

(***************************************************************************)
(* Bounds of the model and the inputs it draws from                        *)
(***************************************************************************)
MaxSeqLen == 3             \* longest scripted job status sequence
SlowFetchMS == 3598000     \* latency of a slow status fetch
MaxPolicyLinkId == 12      \* largest policy id a served policy hyperlink names

Latencies == {0, SlowFetchMS}
JobStates == {"", "Pending", JobSuccess, JobFailed}
SubmitStates == {"Pending", JobSuccess}
JobIds == {7, 12}
JobTypes == {"Provision IPAM"}
WorkspaceLists == {<<>>, <<3>>, <<42, 3>>}
PolicyIds == {0, 15}
ReservationIds == {5}
Templates == {"{{ hostname }}.example.com"}
Hrefs == {<<"/","a","p","i","/","v","3","/","o","n","e","f","u","s","e","/",
            "i","p","a","m","R","e","s","e","r","v","a","t","i","o","n","s","/","9","/">>}
ErrorLists == {<<"bad hostname">>, <<"bad hostname", "no free address">>}

Config == [scheme  |-> <<"h","t","t","p","s">>,
           address |-> <<"h","o","s","t">>,
           port    |-> <<"4","4","3">>]

(***************************************************************************)
(* strconv, path and URL helpers                                           *)
(***************************************************************************)
Digits == <<"0","1","2","3","4","5","6","7","8","9">>

RECURSIVE ItoaNat(_)
ItoaNat(n) ==
    IF n < 10 THEN <<Digits[n + 1]>>
    ELSE ItoaNat(n \div 10) \o <<Digits[(n % 10) + 1]>>

Itoa(n) == IF n < 0 THEN <<"-">> \o ItoaNat(-n) ELSE ItoaNat(n)

IsDigit(c) == \E n \in 1..10 : Digits[n] = c

DigitVal(c) == (CHOOSE n \in 1..10 : Digits[n] = c) - 1

RECURSIVE ParseNat(_)
ParseNat(s) ==
    IF s = <<>> THEN 0
    ELSE ParseNat(SubSeq(s, 1, Len(s) - 1)) * 10 + DigitVal(s[Len(s)])

\* strconv.Atoi: an optional sign and at least one decimal digit
Atoi(s) ==
    LET signed == Len(s) > 0 /\ s[1] \in {"-", "+"}
        body   == IF signed THEN Tail(s) ELSE s
        ok     == Len(body) > 0 /\ \A i \in 1..Len(body) : IsDigit(body[i])
    IN  [ok  |-> ok,
         val |-> IF ~ok THEN 0
                 ELSE IF signed /\ s[1] = "-" THEN -ParseNat(body)
                 ELSE ParseNat(body)]

RECURSIVE PathJoin(_)
PathJoin(elems) ==
    IF Len(elems) = 0 THEN <<>>
    ELSE IF Len(elems) = 1 THEN elems[1]
    ELSE elems[1] \o <<"/">> \o PathJoin(Tail(elems))

\* strings.Split: the pieces of s between the occurrences of sep
RECURSIVE Split(_, _)
Split(s, sep) ==
    IF \E i \in 1..Len(s) : s[i] = sep THEN
        LET i == CHOOSE k \in 1..Len(s) :
                    s[k] = sep /\ \A j \in 1..(k - 1) : s[j] # sep
        IN  <<SubSeq(s, 1, i - 1)>> \o Split(SubSeq(s, i + 1, Len(s)), sep)
    ELSE <<s>>

collectionURL(config, resourceType) ==
    LET baseURL  == config.scheme \o <<":","/","/">> \o config.address
                      \o <<":">> \o config.port
        endpoint == PathJoin(<<ApiVersion, ApiNamespace, resourceType>>)
    IN  baseURL \o <<"/">> \o endpoint \o <<"/">>

urlFromHref(config, href) ==
    config.scheme \o <<":","/","/">> \o config.address \o <<":">> \o config.port \o href

itemURL(config, resourceType, id) ==
    collectionURL(config, resourceType) \o Itoa(id) \o <<"/">>

(***************************************************************************)
(* Errors (github.com/pkg/errors values), HTTP responses, entities         *)
(***************************************************************************)
NilError == [kind |-> "nil", msg |-> "", wraps |-> <<>>,
             jobType |-> "", jobID |-> <<>>, errors |-> <<>>]

NewError(kind, msg) == [NilError EXCEPT !.kind = kind, !.msg = msg]

\* errors.WithMessage: nil stays nil, anything else gets the message in front
WithMessage(err, message) ==
    IF err = NilError THEN NilError
    ELSE [err EXCEPT !.wraps = <<message>> \o @]

TransportError == NewError("transport", "dial tcp: connection refused")
DecodeError == NewError("decode", "invalid character '<' looking for beginning of value")

\* what client.Do hands back: failed is a transport error, otherwise a status
\* code and a body that may or may not decode as JSON
Responses ==
    { [failed |-> TRUE,  StatusCode |-> 0,   body |-> "",               decodable |-> FALSE],
      [failed |-> FALSE, StatusCode |-> 200, body |-> "{json}",         decodable |-> TRUE],
      [failed |-> FALSE, StatusCode |-> 200, body |-> "<html>",         decodable |-> FALSE],
      [failed |-> FALSE, StatusCode |-> 399, body |-> "Redirected.",    decodable |-> FALSE],
      [failed |-> FALSE, StatusCode |-> 400, body |-> "Bad request.",   decodable |-> FALSE],
      [failed |-> FALSE, StatusCode |-> 500, body |-> "Server error.",  decodable |-> FALSE] }

\* the response variable before any request got an answer
NoResponse == [failed |-> FALSE, StatusCode |-> 0, body |-> "", decodable |-> TRUE]

NilReservationLinks == [nil |-> TRUE, Workspace |-> <<>>, Policy |-> <<>>]

ZeroReservation == [Links |-> NilReservationLinks, ID |-> 0, Hostname |-> "",
                    PolicyID |-> 0, Policy |-> <<>>, WorkspaceURL |-> <<>>]

GivenWorkspaceURL == <<"h","t","t","p","s",":","/","/","h","o","s","t",":","4","4","3",
                       "/","a","p","i","/","v","3","/","o","n","e","f","u","s","e","/",
                       "w","o","r","k","s","p","a","c","e","s","/","8","/">>
GivenPolicyURL == <<"h","t","t","p","s",":","/","/","h","o","s","t",":","4","4","3",
                    "/","a","p","i","/","v","3","/","o","n","e","f","u","s","e","/",
                    "m","o","d","u","l","e","P","o","l","i","c","i","e","s","/","2","/">>

\* the records a caller may pass to CreateIPAMReservation
NewRecords ==
    { [ZeroReservation EXCEPT !.Hostname = "web01", !.WorkspaceURL = w,
                              !.PolicyID = p, !.Policy = u] :
        w \in {<<>>, GivenWorkspaceURL}, p \in PolicyIds, u \in {<<>>, GivenPolicyURL} }

\* the hyperlinks a served reservation may carry for its policy: an id under
\* an absolute or a relative collection prefix, or none
PolicyLinkPrefixes ==
    { collectionURL(Config, ModulePolicyResourceType),
      <<"/","a","p","i","/","v","3","/","o","n","e","f","u","s","e","/",
        "i","p","a","m","P","o","l","i","c","i","e","s","/">> }

ModulePolicy42Href ==
    <<"/","a","p","i","/","v","3","/","o","n","e","f","u","s","e","/",
      "m","o","d","u","l","e","P","o","l","i","c","i","e","s","/","4","2","/">>

PolicyHrefs ==
    { prefix \o Itoa(id) \o <<"/">> :
        prefix \in PolicyLinkPrefixes, id \in 0..MaxPolicyLinkId }
    \cup {ModulePolicy42Href, <<>>}

\* the reservations the server may answer a read with
ReadEntities ==
    { [ZeroReservation EXCEPT !.ID = 5, !.Hostname = "web01.example.com", !.Links = l] :
        l \in {NilReservationLinks}
               \cup { [nil |-> FALSE, Workspace |-> GivenWorkspaceURL, Policy |-> h] :
                        h \in PolicyHrefs } }

\* the resource data of a reservation: its id, the fields the adapter reads
\* and writes, and the fields the plan changes
ZeroResourceData == [id |-> <<>>, hostname |-> "", computed_hostname |-> "",
                     workspace_url |-> <<>>, policy_id |-> 0, changed |-> {}]

\* the id of a stored reservation is what Create set: strconv.Itoa(ipamRecord.ID)
StoredResources ==
    { [ZeroResourceData EXCEPT !.id = Itoa(i), !.hostname = "web01",
                               !.computed_hostname = "web01.example.com",
                               !.workspace_url = GivenWorkspaceURL, !.policy_id = 15] :
        i \in ReservationIds }

ChangeSets == { {}, {"dns_search_suffix"}, {"hostname"}, {"template_properties"},
                {"policy_id", "dns_search_suffix"}, {"dns_suffix", "workspace_url"} }

\* the entities the server may return for a managed object
ServerEntities ==
    { [ZeroReservation EXCEPT !.ID = 9, !.Hostname = "web01.example.com"] }

\* hasBody: the request was built with a payload, so that its Body is not nil;
\* body is the entity in the payload, template the template of a render request
NoRequest == [verb |-> "", url |-> <<>>, hasBody |-> FALSE, body |-> ZeroReservation,
              template |-> ""]

Request(verb, url) == [NoRequest EXCEPT !.verb = verb, !.url = url]

\* json.Marshal of a reservation, as the JSON object's keys and their values:
\* every modelled field is tagged omitempty and is left out when it is empty
Marshal(entity) ==
    LET keys == { k \in {"_links", "id", "hostname", "policyId", "policy", "workspace"} :
                    CASE k = "_links"    -> ~entity.Links.nil
                      [] k = "id"        -> entity.ID # 0
                      [] k = "hostname"  -> entity.Hostname # ""
                      [] k = "policyId"  -> entity.PolicyID # 0
                      [] k = "policy"    -> entity.Policy # <<>>
                      [] k = "workspace" -> entity.WorkspaceURL # <<>> }
    IN  [ k \in keys |->
            CASE k = "_links"    -> entity.Links
              [] k = "id"        -> entity.ID
              [] k = "hostname"  -> entity.Hostname
              [] k = "policyId"  -> entity.PolicyID
              [] k = "policy"    -> entity.Policy
              [] k = "workspace" -> entity.WorkspaceURL ]

NilLinks == [nil |-> TRUE, ManagedObject |-> <<>>]
NilErrorDetails == [nil |-> TRUE, Code |-> 0, errorsNil |-> TRUE, Errors |-> <<>>]
NilJobStatus == [nil |-> TRUE, ID |-> 0, JobState |-> "", JobType |-> "",
                 Links |-> NilLinks, ErrorDetails |-> NilErrorDetails]

\* the fields a fetched status may carry besides its state: an unfinished job
\* carries nothing, a finished one may or may not carry links or error details
StatusShapes(state) ==
    IF state = JobSuccess THEN
        { [Links |-> l, ErrorDetails |-> NilErrorDetails] :
            l \in {NilLinks} \cup { [nil |-> FALSE, ManagedObject |-> h] : h \in Hrefs } }
    ELSE IF state = JobFailed THEN
        { [Links |-> NilLinks, ErrorDetails |-> details] :
            details \in {NilErrorDetails,
                   [nil |-> FALSE, Code |-> 400, errorsNil |-> TRUE, Errors |-> <<>>]}
                  \cup { [nil |-> FALSE, Code |-> 400, errorsNil |-> FALSE, Errors |-> e] :
                           e \in ErrorLists } }
    ELSE { [Links |-> NilLinks, ErrorDetails |-> NilErrorDetails] }

NoResult == [kind |-> "none", err |-> NilError, entity |-> ZeroReservation]
Returned(err, entity) ==
    [kind |-> IF err = NilError THEN "ok" ELSE "error", err |-> err, entity |-> entity]
Panicked == [kind |-> "panic", err |-> NilError, entity |-> ZeroReservation]

\* handleAsyncRequest has not returned / has returned (jobStatus, err) / has
\* aborted
NoReturn == [kind |-> "none", jobStatus |-> NilJobStatus, err |-> NilError]

AsyncReturned(status, err) == [kind |-> "returned", jobStatus |-> status, err |-> err]

AsyncPanicked == [kind |-> "panic", jobStatus |-> NilJobStatus, err |-> NilError]

(***************************************************************************)
(* Transport helpers                                                       *)
(***************************************************************************)
\* a check that takes only the server errors for failures
checkForErrorsServerOnly(res) ==
    IF res.StatusCode >= 500 THEN NewError("http", res.body) ELSE NilError

checkForErrors(res) ==
    IF res.StatusCode >= 500 THEN NewError("http", res.body)
    ELSE IF res.StatusCode >= 400 THEN NewError("http", res.body)
    ELSE NilError

\* the error of doGet for a response; NilError when the body was decoded
doGet(res) ==
    IF res.failed THEN
        WithMessage(TransportError, "athena.apiClient: Failed to do request GET")
    ELSE IF checkForErrors(res) # NilError THEN
        WithMessage(checkForErrors(res), "athena.apiClient: Request failed GET")
    ELSE IF ~res.decodable THEN
        WithMessage(DecodeError, "athena.apiClient: Failed to unmarshal response")
    ELSE NilError

(***************************************************************************)
(* Default workspace resolution                                            *)
(***************************************************************************)
DefaultWorkspaceFilter ==
    <<"f","i","l","t","e","r","=","n","a","m","e",".","e","x","a","c","t",":",
      "D","e","f","a","u","l","t">>

DefaultWorkspaceRequest(config) ==
    Request("GET", collectionURL(config, WorkspaceResourceType)
                     \o <<"?">> \o DefaultWorkspaceFilter)

\* a lookup that takes the last workspace of the collection
findLastWorkspaceID(config, res, workspaces) ==
    LET found == IF res.decodable THEN workspaces ELSE <<>>
    IN  IF res.failed THEN
            [workspaceID |-> <<>>,
             err |-> WithMessage(TransportError,
                        "athena.findDefaultWorkspaceID: Failed to do request GET")]
        ELSE IF checkForErrors(res) # NilError THEN
            [workspaceID |-> <<>>, err |-> checkForErrors(res)]
        ELSE IF Len(found) = 0 THEN [workspaceID |-> <<>>, err |-> NilError]
        ELSE [workspaceID |-> Itoa(found[Len(found)]), err |-> NilError]

\* res is the answer to the lookup, workspaces the ids of the collection in it.
\* A body that does not decode leaves the collection empty (the Unmarshal error
\* is dropped); clientErr is nil once client.Do has succeeded.
findDefaultWorkspaceID(config, res, workspaces) ==
    LET clientErr == IF res.failed THEN TransportError ELSE NilError
        found     == IF res.decodable THEN workspaces ELSE <<>>
    IN  IF res.failed THEN
            [workspaceID |-> <<>>,
             err |-> WithMessage(clientErr,
                        "athena.findDefaultWorkspaceID: Failed to do request GET")]
        ELSE IF checkForErrors(res) # NilError THEN
            [workspaceID |-> <<>>, err |-> checkForErrors(res)]
        ELSE IF Len(found) = 0 THEN
            [workspaceID |-> <<>>,
             err |-> WithMessage(clientErr,
                        "athena.findDefaultWorkspaceID: Failed to find default workspace!")]
        ELSE [workspaceID |-> Itoa(found[1]), err |-> NilError]

\* a resolution that looks the default workspace up whatever the caller gave
findDefaultWorkspaceURL(config, workspaceURL, res, workspaces) ==
    LET found == findDefaultWorkspaceID(config, res, workspaces)
        id    == Atoi(found.workspaceID)
        sent  == <<DefaultWorkspaceRequest(config)>>
    IN  IF found.err # NilError THEN
            [url |-> <<>>, sent |-> sent,
             err |-> WithMessage(found.err,
                        "athena.apiClient: Failed to find default workspace")]
        ELSE IF ~id.ok THEN
            [url |-> <<>>, sent |-> sent,
             err |-> WithMessage(NewError("syntax", "strconv.Atoi: invalid syntax"),
                        "athena.apiClient: Failed to convert Workspace ID to integer")]
        ELSE [url |-> itemURL(config, WorkspaceResourceType, id.val),
              sent |-> sent, err |-> NilError]

\* url, err, and the requests issued on the way
findWorkspaceURLOrDefault(config, workspaceURL, res, workspaces) ==
    IF workspaceURL = <<>> THEN
        LET found == findDefaultWorkspaceID(config, res, workspaces)
            id    == Atoi(found.workspaceID)
            sent  == <<DefaultWorkspaceRequest(config)>>
        IN  IF found.err # NilError THEN
                [url |-> <<>>, sent |-> sent,
                 err |-> WithMessage(found.err,
                            "athena.apiClient: Failed to find default workspace")]
            ELSE IF ~id.ok THEN
                [url |-> <<>>, sent |-> sent,
                 err |-> WithMessage(NewError("syntax", "strconv.Atoi: invalid syntax"),
                            "athena.apiClient: Failed to convert Workspace ID to integer")]
            ELSE [url |-> itemURL(config, WorkspaceResourceType, id.val),
                  sent |-> sent, err |-> NilError]
    ELSE [url |-> workspaceURL, sent |-> <<>>, err |-> NilError]

(***************************************************************************)
(* The job protocol engine                                                 *)
(***************************************************************************)
IsTerminal(state) == state = JobSuccess \/ state = JobFailed

\* a loop that stops only on success
KeepsPollingUntilSuccess(description) == description # JobSuccess

\* waitForJob's loop condition
KeepsPolling(description) == description # JobSuccess /\ description # JobFailed

\* a budget that is spent one millisecond early
TimedOutAtBudget(sinceStart) == sinceStart >= PollingTimeoutMS

\* a sleep of 5000 ns, the interval taken without its unit
AfterSleepWithoutUnit(sinceStart) == sinceStart + (PollingIntervalMS \div 1000000)

\* time.Since(startTime) after time.Sleep of the polling interval
AfterSleep(sinceStart) == sinceStart + PollingIntervalMS

\* waitForJob's check after each sleep
TimedOut(sinceStart) == sinceStart > PollingTimeoutMS

TimeoutError == NewError("timeout", "Timed out while waiting for job to complete.")

\* the error for a job that did not succeed; dereferencing absent error
\* details aborts the program
checkForJobErrors(status) ==
    IF status.JobState # JobSuccess THEN
        IF status.ErrorDetails.nil \/ status.ErrorDetails.errorsNil THEN
            [panic |-> TRUE, err |-> NilError]
        ELSE
            [panic |-> FALSE,
             err |-> [NewError("job", "Job %s (%d) failed with message %v")
                         EXCEPT !.jobType = status.JobType,
                                !.jobID = Itoa(status.ID),
                                !.errors = status.ErrorDetails.Errors]]
    ELSE [panic |-> FALSE, err |-> NilError]

\* the status sequences a job may go through; the job stays in the last one
Scripts == UNION { [1..n -> JobStates] : n \in 1..MaxSeqLen }

FirstTerminalPos(seq) ==
    IF \E i \in 1..Len(seq) : IsTerminal(seq[i])
    THEN CHOOSE i \in 1..Len(seq) :
            IsTerminal(seq[i]) /\ \A j \in 1..(i - 1) : ~IsTerminal(seq[j])
    ELSE 0

NoLookup == [made |-> FALSE, res |-> CHOOSE r \in Responses : r.failed, workspaces |-> <<>>]

NoCall == [op |-> "", id |-> 0, record |-> ZeroReservation, d |-> ZeroResourceData,
           template |-> ""]

Calls ==
    { [NoCall EXCEPT !.op = "create", !.record = r] : r \in NewRecords }
    \cup { [NoCall EXCEPT !.op = "delete", !.id = i] : i \in ReservationIds }
    \cup { [NoCall EXCEPT !.op = "read", !.d = r] : r \in StoredResources }
    \cup { [NoCall EXCEPT !.op = "update", !.d = [r EXCEPT !.changed = c]] :
                r \in StoredResources, c \in ChangeSets }
    \cup { [NoCall EXCEPT !.op = "render", !.template = t] : t \in Templates }

NoCalls == [frames |-> <<>>, jobs |-> <<>>, last |-> 0]

Init ==
    /\ pc = "call"
    /\ call \in Calls
    /\ newIPAMRecord = call.record
    /\ req = NoRequest
    /\ jobID = 0
    /\ jobStatus = NilJobStatus
    /\ jobStatusDescription = ""
    /\ elapsed = 0
    /\ result = NoResult
    /\ jobSeq \in Scripts
    /\ firstTerminal = FirstTerminalPos(jobSeq)
    /\ submitState = ""
    /\ observed = NilJobStatus
    /\ lookup = NoLookup
    /\ requests = <<>>
    /\ fetches = 0
    /\ fetchURLs = {}
    /\ sleeps = 0
    /\ lastRes = NoResponse
    /\ served = ZeroReservation
    /\ d = call.d
    /\ asyncReturn = NoReturn
    /\ conc = NoCalls

Return(r) ==
    /\ pc' = "done"
    /\ result' = r

\* CreateIPAMReservation up to the call of the engine: resolve the workspace
\* (res and workspaces are the server's answer to the lookup, if one is made),
\* check the policy reference, build the POST
CreateIPAMReservation ==
    /\ pc = "call"
    /\ call.op = "create"
    /\ \E res \in Responses, workspaces \in WorkspaceLists :
        LET ws     == findWorkspaceURLOrDefault(Config, newIPAMRecord.WorkspaceURL,
                                                res, workspaces)
            withWs == [newIPAMRecord EXCEPT !.WorkspaceURL = ws.url]
            withPo == [withWs EXCEPT
                          !.Policy = itemURL(Config, WorkspaceResourceType, withWs.PolicyID)]
            post   == [Request("POST", collectionURL(Config, IPAMReservationResourceType))
                          EXCEPT !.hasBody = TRUE, !.body = withPo]
            noPolicy == NewError("construct",
                "athena.apiClient: IPAM Record Create requires a PolicyID or Policy URL")
        IN  /\ requests' = requests \o ws.sent
            /\ lastRes' = IF ws.sent = <<>> THEN lastRes ELSE res
            /\ lookup' = IF ws.sent = <<>> THEN NoLookup
                          ELSE [made |-> TRUE, res |-> res,
                                workspaces |-> IF res.decodable THEN workspaces ELSE <<>>]
            /\ IF ws.err # NilError THEN
                   /\ newIPAMRecord' = withWs
                   /\ Return(Returned(ws.err, ZeroReservation))
                   /\ UNCHANGED req
               ELSE IF withWs.Policy = <<>> /\ withWs.PolicyID # 0 THEN
                   /\ newIPAMRecord' = withPo
                   /\ req' = post
                   /\ pc' = "submit"
                   /\ UNCHANGED result
               ELSE
                   /\ newIPAMRecord' = withWs
                   /\ Return(Returned(noPolicy, ZeroReservation))
                   /\ UNCHANGED req
    /\ UNCHANGED <<call, jobID, jobStatus, jobStatusDescription, elapsed, jobSeq,
                   firstTerminal, submitState, observed, fetches, fetchURLs, sleeps,
                   served, d, asyncReturn, conc>>

\* DeleteIPAMReservation up to the call of the engine: build the DELETE
DeleteIPAMReservation ==
    /\ pc = "call"
    /\ call.op = "delete"
    /\ req' = Request("DELETE", itemURL(Config, IPAMReservationResourceType, call.id))
    /\ pc' = "submit"
    /\ UNCHANGED <<call, newIPAMRecord, jobID, jobStatus, jobStatusDescription, elapsed,
                   result, jobSeq, firstTerminal, submitState, observed, lookup,
                   requests, fetches, fetchURLs, sleeps, lastRes, served, d,
                   asyncReturn, conc>>

\* a loop that starts from the state the submit response carried
InitialDescriptionFromSubmit(submitted) == submitted.JobState

\* the state in which waitForJob starts
InitialDescription(submitted) == ""

\* the head of waitForJob's loop, and what follows the loop when it is left:
\* waitForJob returns status, handleAsyncRequest checks it for job errors, and
\* the create flow goes on to the managed object of the status
waitForJobLoop(description, status) ==
    IF KeepsPolling(description) THEN
        /\ pc' = "poll"
        /\ UNCHANGED <<result, asyncReturn>>
    ELSE IF checkForJobErrors(status).panic THEN
        /\ asyncReturn' = AsyncPanicked
        /\ Return(Panicked)
    ELSE IF checkForJobErrors(status).err # NilError THEN
        /\ asyncReturn' = AsyncReturned(NilJobStatus, checkForJobErrors(status).err)
        /\ Return(Returned(checkForJobErrors(status).err, ZeroReservation))
    ELSE IF call.op = "delete" THEN
        /\ asyncReturn' = AsyncReturned(status, NilError)
        /\ Return(Returned(NilError, ZeroReservation))
    ELSE IF status.Links.nil THEN
        /\ asyncReturn' = AsyncReturned(status, NilError)
        /\ Return(Panicked)
    ELSE
        /\ asyncReturn' = AsyncReturned(status, NilError)
        /\ pc' = "resolve"
        /\ UNCHANGED result

\* handleAsyncRequest up to the call of waitForJob: send the request, decode
\* the response as the initial job status, start the clock
handleAsyncRequest ==
    /\ pc = "submit"
    /\ requests' = Append(requests, req)
    /\ \E res \in Responses, id \in JobIds, state \in SubmitStates, type \in JobTypes :
        LET submitted == [NilJobStatus EXCEPT !.nil = FALSE, !.ID = id,
                                              !.JobState = state, !.JobType = type]
        IN  /\ lastRes' = res
            /\ IF (res.failed \/ checkForErrors(res) # NilError) /\ ~req.hasBody THEN
                   \* the error message is built from ioutil.ReadAll(req.Body), and
                   \* the Body of a request built without a payload is nil
                   /\ asyncReturn' = AsyncPanicked
                   /\ Return(Panicked)
                   /\ UNCHANGED <<jobID, jobStatus, jobStatusDescription, submitState>>
               ELSE IF res.failed THEN
                   /\ asyncReturn' = AsyncReturned(NilJobStatus,
                          WithMessage(TransportError, "athena.apiClient: Failed to do request"))
                   /\ Return(Returned(WithMessage(TransportError,
                                 "athena.apiClient: Failed to do request"), ZeroReservation))
                   /\ UNCHANGED <<jobID, jobStatus, jobStatusDescription, submitState>>
               ELSE IF checkForErrors(res) # NilError THEN
                   /\ asyncReturn' = AsyncReturned(NilJobStatus,
                          WithMessage(checkForErrors(res),
                                      "athena.apiClient: Failed to read response body from"))
                   /\ Return(Returned(WithMessage(checkForErrors(res),
                                 "athena.apiClient: Failed to read response body from"),
                                 ZeroReservation))
                   /\ UNCHANGED <<jobID, jobStatus, jobStatusDescription, submitState>>
               ELSE IF ~res.decodable THEN
                   /\ asyncReturn' = AsyncReturned(NilJobStatus,
                          WithMessage(DecodeError,
                                      "athena.apiClient: Failed to unmarshal response"))
                   /\ Return(Returned(WithMessage(DecodeError,
                                 "athena.apiClient: Failed to unmarshal response"),
                                 ZeroReservation))
                   /\ UNCHANGED <<jobID, jobStatus, jobStatusDescription, submitState>>
               ELSE
                   /\ jobStatus' = submitted
                   /\ submitState' = state
                   /\ jobID' = id
                   /\ jobStatusDescription' = InitialDescription(submitted)
                   /\ waitForJobLoop(InitialDescription(submitted), submitted)
    /\ elapsed' = 0
    /\ UNCHANGED <<call, newIPAMRecord, req, jobSeq, firstTerminal, observed, lookup,
                   fetches, fetchURLs, sleeps, served, d, conc>>

\* a loop that follows the id of the status it fetched last
PolledJobIDFromStatus(submittedID, status) ==
    IF status.nil THEN submittedID ELSE status.ID

\* the id waitForJob passes to GetJobStatus: its parameter jobID, whatever
\* the status fetched so far says
PolledJobID(submittedID, status) == submittedID

\* one GetJobStatus of waitForJob's loop: the server reports the job's next
\* state after latency ms
GetJobStatus ==
    /\ pc = "poll"
    /\ fetches' = fetches + 1
    /\ fetchURLs' = fetchURLs \cup {itemURL(Config, JobStatusResourceType,
                                              PolledJobID(jobID, jobStatus))}
    /\ \E res \in Responses, latency \in Latencies :
        /\ elapsed' = elapsed + latency
        /\ lastRes' = res
        /\ IF doGet(res) # NilError THEN
               /\ asyncReturn' = AsyncReturned(NilJobStatus, doGet(res))
               /\ Return(Returned(doGet(res), ZeroReservation))
               /\ jobStatus' = NilJobStatus
               /\ UNCHANGED <<jobStatusDescription, jobSeq, observed>>
           ELSE
               /\ \E id \in JobIds, type \in JobTypes, shape \in StatusShapes(Head(jobSeq)) :
                    jobStatus' = [nil |-> FALSE, ID |-> id, JobState |-> Head(jobSeq),
                                  JobType |-> type, Links |-> shape.Links,
                                  ErrorDetails |-> shape.ErrorDetails]
               /\ observed' = jobStatus'
               /\ jobStatusDescription' = Head(jobSeq)
               /\ jobSeq' = IF Len(jobSeq) > 1 THEN Tail(jobSeq) ELSE jobSeq
               /\ pc' = "sleep"
               /\ UNCHANGED <<result, asyncReturn>>
    /\ UNCHANGED <<call, newIPAMRecord, req, jobID, firstTerminal, submitState, lookup,
                   requests, sleeps, served, d, conc>>

\* the rest of the loop body: sleep, give up when the budget is spent,
\* otherwise go round the loop
Sleep ==
    /\ pc = "sleep"
    /\ sleeps' = sleeps + 1
    /\ elapsed' = AfterSleep(elapsed)
    /\ IF TimedOut(elapsed') THEN
           /\ asyncReturn' = AsyncReturned(NilJobStatus, TimeoutError)
           /\ Return(Returned(TimeoutError, ZeroReservation))
           /\ jobStatus' = NilJobStatus
       ELSE
           /\ waitForJobLoop(jobStatusDescription, jobStatus)
           /\ UNCHANGED jobStatus
    /\ UNCHANGED <<call, newIPAMRecord, req, jobID, jobStatusDescription, jobSeq,
                   firstTerminal, submitState, observed, lookup, requests, fetches,
                   fetchURLs, lastRes, served, d, conc>>

\* a resolve step that deletes the reservation again when its GET fails
FetchManagedObjectWithCleanup ==
    /\ pc = "resolve"
    /\ \E res \in Responses, entity \in ServerEntities :
        LET get     == Request("GET", urlFromHref(Config, jobStatus.Links.ManagedObject))
            cleanup == Request("DELETE", urlFromHref(Config, jobStatus.Links.ManagedObject))
        IN  /\ lastRes' = res
            /\ IF doGet(res) # NilError
               THEN /\ requests' = requests \o <<get, cleanup>>
                    /\ Return(Returned(doGet(res), ZeroReservation))
               ELSE /\ requests' = Append(requests, get)
                    /\ Return(Returned(NilError, entity))
    /\ UNCHANGED <<call, newIPAMRecord, req, jobID, jobStatus, jobStatusDescription,
                   elapsed, jobSeq, firstTerminal, submitState, observed, lookup, fetches,
                   fetchURLs, sleeps, served, d, asyncReturn, conc>>

\* handleAsyncRequestAndFetchManagdObject after the engine succeeded: GET the
\* managed object, which CreateIPAMReservation returns
FetchManagedObject ==
    /\ pc = "resolve"
    /\ requests' = Append(requests,
                     Request("GET", urlFromHref(Config, jobStatus.Links.ManagedObject)))
    /\ \E res \in Responses, entity \in ServerEntities :
        /\ lastRes' = res
        /\ IF doGet(res) # NilError
           THEN Return(Returned(doGet(res), ZeroReservation))
           ELSE Return(Returned(NilError, entity))
    /\ UNCHANGED <<call, newIPAMRecord, req, jobID, jobStatus, jobStatusDescription,
                   elapsed, jobSeq, firstTerminal, submitState, observed, lookup, fetches,
                   fetchURLs, sleeps, served, d, asyncReturn, conc>>

(***************************************************************************)
(* The operations that do not run the job protocol, and the binding        *)
(* adapter's read and update entry points (src/unnamed/part_000)           *)
(***************************************************************************)
\* a read that addresses the reservation under the job status collection
ReservationURLUnderJobStatus(config, id) == itemURL(config, JobStatusResourceType, id)

\* the URL GetIPAMReservation reads
GetIPAMReservationURL(config, id) == itemURL(config, IPAMReservationResourceType, id)

\* the last piece of a split hyperlink
LastSegment(split) == split[Len(split)]

\* the piece of a split hyperlink the adapter takes for the policy id
PolicySegment(split) == split[Len(split) - 1]

\* bindIPAMReservationResource: copy the served record into the resource
\* data, field by field (the address fields are copied like the host name);
\* a nil record, absent links or a hyperlink without a '/' abort it, with
\* the fields set so far already written
bindIPAMReservationResource(data, ipamRecord) ==
    LET rec   == ipamRecord.record
        named == [data EXCEPT !.computed_hostname = rec.Hostname]
        inWs  == [named EXCEPT !.workspace_url = rec.Links.Workspace]
        split == Split(rec.Links.Policy, "/")
    IN  IF ipamRecord.nil THEN [panic |-> TRUE, d |-> data]
        ELSE IF rec.Links.nil THEN [panic |-> TRUE, d |-> named]
        ELSE IF Len(split) < 2 THEN [panic |-> TRUE, d |-> inWs]
        ELSE [panic |-> FALSE,
              d |-> [inWs EXCEPT !.policy_id = Atoi(PolicySegment(split)).val]]

\* resourceIPAMReservationRead: parse the id, GetIPAMReservation (one doGet
\* of the item URL), bind the record served
resourceIPAMReservationRead ==
    /\ pc = "call"
    /\ call.op = "read"
    /\ LET intID == Atoi(d.id)
       IN  IF ~intID.ok THEN
               /\ Return(Returned(NewError("syntax", "strconv.Atoi: invalid syntax"),
                                  ZeroReservation))
               /\ UNCHANGED <<requests, lastRes, served, d>>
           ELSE
               /\ requests' = Append(requests,
                                Request("GET", GetIPAMReservationURL(Config, intID.val)))
               /\ \E res \in Responses, entity \in ReadEntities :
                    LET bound == bindIPAMReservationResource(d,
                                     [nil |-> FALSE, record |-> entity])
                    IN  /\ lastRes' = res
                        /\ IF doGet(res) # NilError THEN
                               /\ Return(Returned(doGet(res), ZeroReservation))
                               /\ UNCHANGED <<served, d>>
                           ELSE
                               /\ served' = entity
                               /\ d' = bound.d
                               /\ Return(IF bound.panic THEN Panicked
                                         ELSE Returned(NilError, ZeroReservation))
    /\ UNCHANGED <<call, newIPAMRecord, req, jobID, jobStatus, jobStatusDescription,
                   elapsed, jobSeq, firstTerminal, submitState, observed, lookup, fetches,
                   fetchURLs, sleeps, asyncReturn, conc>>

TrackedFields ==
    {"hostname", "computed_hostname", "policy_id", "workspace_url", "ip_address",
     "netmask", "subnet", "network", "gateway", "primary_dns", "secondary_dns",
     "dns_suffix", "nic_label", "template_properties"}

HasChange(data, key) == key \in data.changed

\* an update that PUTs the desired record and returns it
UpdateIPAMReservationByPut(id, updatedIPAMReservation) ==
    [nil |-> FALSE, record |-> [updatedIPAMReservation EXCEPT !.ID = id],
     err |-> NilError,
     sent |-> <<[Request("PUT", itemURL(Config, IPAMReservationResourceType, id))
                    EXCEPT !.hasBody = TRUE, !.body = updatedIPAMReservation]>>]

\* UpdateIPAMReservation: the record and error it returns, the requests it sends
UpdateIPAMReservation(id, updatedIPAMReservation) ==
    [nil |-> TRUE, record |-> ZeroReservation,
     err |-> NewError("unsupported", "athena.apiClient: Not implemented yet"),
     sent |-> <<>>]

\* resourceIPAMReservationUpdate: nothing to do unless a tracked field has a
\* change; otherwise build the desired record, parse the id, call
\* UpdateIPAMReservation and bind what it returns
resourceIPAMReservationUpdate ==
    /\ pc = "call"
    /\ call.op = "update"
    /\ LET changed == \E key \in TrackedFields : HasChange(d, key)
           desiredIPAMRecord == [ZeroReservation EXCEPT !.Hostname = d.hostname,
                                                        !.PolicyID = d.policy_id,
                                                        !.WorkspaceURL = d.workspace_url]
           intID   == Atoi(d.id)
           updated == UpdateIPAMReservation(intID.val, desiredIPAMRecord)
           bound   == bindIPAMReservationResource(d, updated)
       IN  IF ~changed THEN
               /\ Return(Returned(NilError, ZeroReservation))
               /\ UNCHANGED <<requests, d>>
           ELSE IF ~intID.ok THEN
               /\ Return(Returned(NewError("syntax", "strconv.Atoi: invalid syntax"),
                                  ZeroReservation))
               /\ UNCHANGED <<requests, d>>
           ELSE IF updated.err # NilError THEN
               /\ requests' = requests \o updated.sent
               /\ Return(Returned(updated.err, ZeroReservation))
               /\ UNCHANGED d
           ELSE
               /\ requests' = requests \o updated.sent
               /\ d' = bound.d
               /\ Return(IF bound.panic THEN Panicked
                         ELSE Returned(NilError, ZeroReservation))
    /\ UNCHANGED <<call, newIPAMRecord, req, jobID, jobStatus, jobStatusDescription,
                   elapsed, jobSeq, firstTerminal, submitState, observed, lookup, fetches,
                   fetchURLs, sleeps, lastRes, served, asyncReturn, conc>>

\* RenderTemplate: one POST of the template to the template tester, whose
\* answer is decoded and returned (the rendered value is not modelled)
RenderTemplate ==
    /\ pc = "call"
    /\ call.op = "render"
    /\ requests' = Append(requests,
                     [Request("POST", collectionURL(Config, RenderTemplateType))
                         EXCEPT !.hasBody = TRUE, !.template = call.template])
    /\ \E res \in Responses :
        /\ lastRes' = res
        /\ IF res.failed THEN
               Return(Returned(WithMessage(TransportError,
                          "athena.apiClient: Failed to do request POST"), ZeroReservation))
           ELSE IF checkForErrors(res) # NilError THEN
               Return(Returned(WithMessage(checkForErrors(res),
                          "athena.apiClient: Request failed POST"), ZeroReservation))
           ELSE IF ~res.decodable THEN
               Return(Returned(WithMessage(DecodeError,
                          "athena.apiClient: Failed to unmarshal response"),
                          ZeroReservation))
           ELSE Return(Returned(NilError, ZeroReservation))
    /\ UNCHANGED <<call, newIPAMRecord, req, jobID, jobStatus, jobStatusDescription,
                   elapsed, jobSeq, firstTerminal, submitState, observed, lookup, fetches,
                   fetchURLs, sleeps, served, d, asyncReturn, conc>>

Next ==
    \/ CreateIPAMReservation
    \/ DeleteIPAMReservation
    \/ handleAsyncRequest
    \/ GetJobStatus
    \/ Sleep
    \/ FetchManagedObject
    \/ resourceIPAMReservationRead
    \/ resourceIPAMReservationUpdate
    \/ RenderTemplate

Spec == Init /\ [][Next]_vars

\* every request gets its answer and every sleep ends: a step that can be
\* taken is taken
FairSpec == Spec /\ WF_vars(Next)

(***************************************************************************)
(* Two calls of the job protocol running concurrently. Each call has its   *)
(* own frame (the locals of handleAsyncRequest and waitForJob) and its own *)
(* job on the server; a step is a request or a sleep of one of the calls.  *)
(***************************************************************************)
Procs == {1, 2}

\* the id the server gives the job of call p
JobIdOf(p) == <<7, 12>>[p]

ConcOps == {"create", "delete"}

ConcScripts == { <<JobSuccess>>, <<"Pending", JobSuccess>>, <<"Pending", JobFailed>>,
                 <<"", "Pending">> }

StartFrame(op) ==
    [op |-> op, pc |-> "submit", jobID |-> 0, jobStatus |-> NilJobStatus,
     jobStatusDescription |-> "", elapsed |-> 0, result |-> NoResult,
     fetches |-> 0, sleeps |-> 0]

\* the server's side of a call: the states its job will report, the status
\* last served for it, the last response sent to the call, the fetches seen
StartJob(seq) ==
    [seq |-> seq, firstTerminal |-> FirstTerminalPos(seq), served |-> NilJobStatus,
     lastRes |-> NoResponse, fetched |-> 0]

ConcStarts ==
    { [frames |-> [p \in Procs |-> StartFrame(ops[p])],
       jobs   |-> [p \in Procs |-> StartJob(seqs[p])],
       last   |-> 0] :
        ops \in [Procs -> ConcOps], seqs \in [Procs -> ConcScripts] }

\* a status variable declared once for the package, shared by all calls
SharedStatusFrame(p) == 1

\* where call p keeps jobStatus and jobStatusDescription: they are a named
\* result and a local of waitForJob, so in the frame of the call itself
StatusFrame(p) == p

MyStatus(p) == conc.frames[StatusFrame(p)].jobStatus

MyDescription(p) == conc.frames[StatusFrame(p)].jobStatusDescription

\* the frames after call p has stored frame as its own and written status
\* and description to its status variables
Stored(p, frame, status, description) ==
    [[conc.frames EXCEPT ![p] = frame]
        EXCEPT ![StatusFrame(p)].jobStatus = status,
               ![StatusFrame(p)].jobStatusDescription = description]

\* waitForJobLoop for a call with its own frame: where the call goes and
\* what it returns once the loop condition has been evaluated
continueOrReturn(op, description, status) ==
    IF KeepsPolling(description) THEN [pc |-> "poll", result |-> NoResult]
    ELSE IF checkForJobErrors(status).panic THEN [pc |-> "done", result |-> Panicked]
    ELSE IF checkForJobErrors(status).err # NilError THEN
        [pc |-> "done", result |-> Returned(checkForJobErrors(status).err, ZeroReservation)]
    ELSE IF op = "delete" THEN
        [pc |-> "done", result |-> Returned(NilError, ZeroReservation)]
    ELSE IF status.Links.nil THEN [pc |-> "done", result |-> Panicked]
    ELSE [pc |-> "resolve", result |-> NoResult]

\* a job that has run out of scripted states without finishing answers
\* slowly, which keeps the end of the budget within reach
ConcLatencies(job) ==
    IF Len(job.seq) = 1 /\ ~IsTerminal(Head(job.seq)) THEN {SlowFetchMS} ELSE Latencies

ConcSubmit(p) ==
    /\ conc.frames[p].pc = "submit"
    /\ \E res \in Responses, state \in SubmitStates, type \in JobTypes :
        LET frame     == conc.frames[p]
            submitted == [NilJobStatus EXCEPT !.nil = FALSE, !.ID = JobIdOf(p),
                                              !.JobState = state, !.JobType = type]
            next      == continueOrReturn(frame.op, InitialDescription(submitted), submitted)
            failed(r) == [frame EXCEPT !.pc = "done", !.result = r]
        IN  conc' =
              [conc EXCEPT
                 !.last = p,
                 !.jobs[p].lastRes = res,
                 !.frames =
                    IF (res.failed \/ checkForErrors(res) # NilError)
                          /\ frame.op = "delete" THEN
                        Stored(p, failed(Panicked), MyStatus(p), MyDescription(p))
                    ELSE IF res.failed THEN
                        Stored(p, failed(Returned(WithMessage(TransportError,
                                      "athena.apiClient: Failed to do request"),
                                      ZeroReservation)),
                               MyStatus(p), MyDescription(p))
                    ELSE IF checkForErrors(res) # NilError THEN
                        Stored(p, failed(Returned(WithMessage(checkForErrors(res),
                                      "athena.apiClient: Failed to read response body from"),
                                      ZeroReservation)),
                               MyStatus(p), MyDescription(p))
                    ELSE IF ~res.decodable THEN
                        Stored(p, failed(Returned(WithMessage(DecodeError,
                                      "athena.apiClient: Failed to unmarshal response"),
                                      ZeroReservation)),
                               MyStatus(p), MyDescription(p))
                    ELSE
                        Stored(p, [frame EXCEPT !.jobID = JobIdOf(p), !.elapsed = 0,
                                                !.pc = next.pc, !.result = next.result],
                               submitted, InitialDescription(submitted))]
    /\ UNCHANGED callVars

ConcGetJobStatus(p) ==
    /\ conc.frames[p].pc = "poll"
    /\ \E res \in Responses, latency \in ConcLatencies(conc.jobs[p]),
          type \in JobTypes, shape \in StatusShapes(Head(conc.jobs[p].seq)) :
        LET frame   == conc.frames[p]
            job     == conc.jobs[p]
            fetched == [frame EXCEPT !.fetches = @ + 1, !.elapsed = @ + latency]
            status  == [nil |-> FALSE, ID |-> JobIdOf(p), JobState |-> Head(job.seq),
                        JobType |-> type, Links |-> shape.Links,
                        ErrorDetails |-> shape.ErrorDetails]
        IN  IF doGet(res) # NilError THEN
                conc' = [conc EXCEPT
                           !.last = p,
                           !.jobs[p] = [job EXCEPT !.lastRes = res, !.fetched = @ + 1],
                           !.frames = Stored(p,
                               [fetched EXCEPT !.pc = "done",
                                   !.result = Returned(doGet(res), ZeroReservation)],
                               NilJobStatus, MyDescription(p))]
            ELSE
                conc' = [conc EXCEPT
                           !.last = p,
                           !.jobs[p] = [job EXCEPT
                               !.lastRes = res, !.fetched = @ + 1, !.served = status,
                               !.seq = IF Len(job.seq) > 1 THEN Tail(job.seq) ELSE job.seq],
                           !.frames = Stored(p, [fetched EXCEPT !.pc = "sleep"],
                                             status, Head(job.seq))]
    /\ UNCHANGED callVars

ConcSleep(p) ==
    /\ conc.frames[p].pc = "sleep"
    /\ LET frame == conc.frames[p]
           slept == [frame EXCEPT !.sleeps = @ + 1, !.elapsed = AfterSleep(@)]
           next  == continueOrReturn(frame.op, MyDescription(p), MyStatus(p))
       IN  conc' = [conc EXCEPT
                      !.last = p,
                      !.frames =
                         IF TimedOut(slept.elapsed) THEN
                             Stored(p, [slept EXCEPT !.pc = "done",
                                           !.result = Returned(TimeoutError, ZeroReservation)],
                                    NilJobStatus, MyDescription(p))
                         ELSE
                             Stored(p, [slept EXCEPT !.pc = next.pc,
                                                     !.result = next.result],
                                    MyStatus(p), MyDescription(p))]
    /\ UNCHANGED callVars

ConcFetchManagedObject(p) ==
    /\ conc.frames[p].pc = "resolve"
    /\ \E res \in Responses, entity \in ServerEntities :
        LET frame == conc.frames[p]
        IN  conc' = [conc EXCEPT
                       !.last = p,
                       !.jobs[p].lastRes = res,
                       !.frames = Stored(p,
                           [frame EXCEPT !.pc = "done",
                               !.result = IF doGet(res) # NilError
                                          THEN Returned(doGet(res), ZeroReservation)
                                          ELSE Returned(NilError, entity)],
                           MyStatus(p), MyDescription(p))]
    /\ UNCHANGED callVars

\* no single call is running
ConcInit ==
    /\ conc \in ConcStarts
    /\ pc = "done"
    /\ call = NoCall
    /\ newIPAMRecord = ZeroReservation
    /\ req = NoRequest
    /\ jobID = 0
    /\ jobStatus = NilJobStatus
    /\ jobStatusDescription = ""
    /\ elapsed = 0
    /\ result = NoResult
    /\ jobSeq = <<"">>
    /\ firstTerminal = 0
    /\ submitState = ""
    /\ observed = NilJobStatus
    /\ lookup = NoLookup
    /\ requests = <<>>
    /\ fetches = 0
    /\ fetchURLs = {}
    /\ sleeps = 0
    /\ lastRes = NoResponse
    /\ served = ZeroReservation
    /\ d = ZeroResourceData
    /\ asyncReturn = NoReturn

ConcNext ==
    \/ \E p \in Procs : ConcSubmit(p)
    \/ \E p \in Procs : ConcGetJobStatus(p)
    \/ \E p \in Procs : ConcSleep(p)
    \/ \E p \in Procs : ConcFetchManagedObject(p)

ConcSpec == ConcInit /\ [][ConcNext]_vars

(***************************************************************************)
(* Properties                                                              *)
(***************************************************************************)
SubmitSucceeded == jobID # 0

\* a transport error, an HTTP status >= 400 or an undecodable body
RequestFailed(err) == err.kind \in {"transport", "http", "decode"}

ServerBase == <<"h","t","t","p","s",":","/","/","h","o","s","t",":","4","4","3">>

\* the positions in the log of the GETs for the managed object of href
ManagedObjectGets(href) ==
    { i \in DOMAIN requests :
        requests[i].verb = "GET" /\ requests[i].url = ServerBase \o href }

AnyManagedObjectGet == \E h \in Hrefs : ManagedObjectGets(h) # {}

Mutating(verb) == verb \in {"POST", "PUT", "DELETE"}

\* C1: once the submit has succeeded the engine is either about to issue its
\* first status fetch, with no sleep taken, or has issued at least one; no
\* sleep is ever taken before a fetch; the job state of the submit response
\* does not let the engine leave the loop without fetching.
C1_FetchBeforeSleep ==
    /\ sleeps <= fetches
    /\ SubmitSucceeded /\ fetches = 0 => pc = "poll" /\ sleeps = 0
    /\ SubmitSucceeded /\ pc \in {"sleep", "resolve", "done"} => fetches >= 1

C1_Witness ==
    /\ submitState = JobSuccess
    /\ pc = "sleep"
    /\ fetches = 1
    /\ sleeps = 0

\* C2: the engine fetches the status exactly as many times as it takes to see
\* the job's first terminal state: when a fetch has observed a terminal state
\* at position n of the job's sequence, exactly n fetches have been issued,
\* and never more than n; every non-terminal state (the empty one included)
\* is followed by a sleep of 5000 ms and then another fetch, unless the
\* budget is spent; each fetch but the first comes after one sleep more.
C2_ExactlyNFetches ==
    /\ IsTerminal(jobStatusDescription) => fetches = firstTerminal
    /\ firstTerminal > 0 => fetches <= firstTerminal
    /\ pc = "poll" => sleeps = fetches /\ ~IsTerminal(jobStatusDescription)
    /\ pc = "sleep" => fetches = sleeps + 1
    /\ elapsed >= sleeps * PollingIntervalMS
    /\ pc = "resolve" \/ (pc = "done" /\ fetches >= 1 /\ result.kind \in {"ok", "panic"})
          => IsTerminal(jobStatusDescription)
    /\ pc = "done" /\ fetches >= 1 /\ ~IsTerminal(jobStatusDescription)
          => result.err = TimeoutError \/ RequestFailed(result.err)

C2_Witness ==
    /\ firstTerminal = 3
    /\ fetches = 3
    /\ sleeps = 3
    /\ elapsed >= 3 * PollingIntervalMS
    /\ jobStatusDescription = JobSuccess
    /\ pc = "done"
    /\ result.kind = "ok"

\* C3 (as claimed): in a create flow, once a fetch has observed 'Successful'
\* (with a managedObject link), the finished operation has issued exactly one
\* GET to scheme://host:port followed by the href, as its last request, and
\* returns the entity that GET decoded unless the GET itself failed.
C3_ResolveOnceObserved ==
    call.op = "create" /\ pc = "done"
        /\ observed.JobState = JobSuccess /\ ~observed.Links.nil
    => /\ Cardinality(ManagedObjectGets(observed.Links.ManagedObject)) = 1
       /\ Len(requests) \in ManagedObjectGets(observed.Links.ManagedObject)
       /\ \/ result.kind = "ok" /\ result.entity \in ServerEntities
          \/ result.kind = "error" /\ RequestFailed(result.err)

\* C4: when no fetch has observed a terminal state and no request failed, the
\* finished engine has returned the timeout error, more than 3,600,000 ms
\* after polling began; the timeout error ends the operation: the last step
\* was a sleep, no managed-object GET was or will be issued, no entity is
\* returned, and no request follows the return.
C4_TimeoutState ==
    /\ pc = "done" /\ fetches >= 1 /\ ~IsTerminal(jobStatusDescription)
          /\ ~RequestFailed(result.err)
       => result.err = TimeoutError
    /\ result.err = TimeoutError
       => /\ pc = "done"
          /\ result.kind = "error"
          /\ result.err.msg = "Timed out while waiting for job to complete."
          /\ result.entity = ZeroReservation
          /\ elapsed > 3600000
          /\ sleeps = fetches
          /\ ~AnyManagedObjectGet

C4_TimeoutEndsRequests ==
    /\ []C4_TimeoutState
    /\ [][result.err = TimeoutError => UNCHANGED <<requests, fetches, pc, result>>]_vars

C4_Witness ==
    /\ firstTerminal = 0
    /\ ~IsTerminal(jobStatusDescription)
    /\ pc = "done"
    /\ result.err = TimeoutError
    /\ fetches = 721

\* C5 (as claimed): the timeout error is returned only when the most recent
\* status fetch did not observe 'Successful' or 'Failed'.
C5_TimeoutOnlyIfNotTerminal ==
    result.err = TimeoutError => ~IsTerminal(observed.JobState)

\* C6 (as claimed): when the last status observed is 'Failed' and carries a
\* list of messages, the finished operation returns an error naming the job
\* type, the job id and every message, returns no entity, and has issued no
\* managed-object GET.
C6_FailedJobError ==
    pc = "done" /\ observed.JobState = JobFailed
        /\ ~observed.ErrorDetails.nil /\ ~observed.ErrorDetails.errorsNil
    => /\ result.kind = "error"
       /\ result.err.kind = "job"
       /\ result.err.jobType = observed.JobType
       /\ Atoi(result.err.jobID) = [ok |-> TRUE, val |-> observed.ID]
       /\ result.err.errors = observed.ErrorDetails.Errors
       /\ result.entity = ZeroReservation
       /\ ~AnyManagedObjectGet

\* C7 (as claimed): a create call with neither or both of policy id and
\* policy URL ends in the request-construction error with no request issued,
\* whether or not a workspace URL was supplied.
NeitherOrBothPolicy(record) ==
    \/ record.PolicyID = 0 /\ record.Policy = <<>>
    \/ record.PolicyID # 0 /\ record.Policy # <<>>

C7_RejectedBeforeAnyRequest ==
    call.op = "create" /\ NeitherOrBothPolicy(call.record) /\ pc = "done"
    => /\ result.kind = "error"
       /\ result.err.kind = "construct"
       /\ requests = <<>>

DefaultLookupEmpty ==
    /\ lookup.made
    /\ ~lookup.res.failed
    /\ lookup.res.StatusCode < 400
    /\ lookup.res.decodable
    /\ lookup.workspaces = <<>>

SaysDefaultWorkspaceNotFound(err) ==
    \E i \in DOMAIN err.wraps :
        err.wraps[i] \in
            {"athena.findDefaultWorkspaceID: Failed to find default workspace!",
             "athena.apiClient: Failed to find default workspace"}

\* C8 (as claimed): a create call without a workspace URL whose 'Default'
\* lookup returns an empty collection fails with the 'failed to find default
\* workspace' error and issues no POST, PUT or DELETE.
C8_DefaultNotFound ==
    call.op = "create" /\ call.record.WorkspaceURL = <<>> /\ DefaultLookupEmpty
    => /\ pc = "done"
       /\ result.kind = "error"
       /\ SaysDefaultWorkspaceNotFound(result.err)
       /\ \A i \in DOMAIN requests : ~Mutating(requests[i].verb)

WorkspacesCollection ==
    ServerBase \o <<"/","a","p","i","/","v","3","/","o","n","e","f","u","s","e","/",
                    "w","o","r","k","s","p","a","c","e","s","/">>

ExpectedWorkspaceURL(id) ==
    WorkspacesCollection
        \o (CASE id = 3 -> <<"3">> [] id = 42 -> <<"4","2">> [] OTHER -> <<"?">>)
        \o <<"/">>

ExpectedLookupURL ==
    WorkspacesCollection \o <<"?","f","i","l","t","e","r","=","n","a","m","e",".",
                              "e","x","a","c","t",":","D","e","f","a","u","l","t">>

\* C9: in a create call without a workspace URL whose 'Default' lookup returns
\* a non-empty collection, the POST (as built, and as sent) carries as its
\* workspace scheme://host:port/api/v3/onefuse/workspaces/<id>/ for the id of
\* the first workspace returned; the lookup is the first request, a GET with
\* the filter name.exact:Default, and the POST comes after it.
C9_DefaultWorkspaceInPost ==
    call.op = "create" /\ call.record.WorkspaceURL = <<>> /\ lookup.made
        /\ lookup.workspaces # <<>> /\ ~lookup.res.failed /\ lookup.res.StatusCode < 400
    => /\ requests[1].verb = "GET"
       /\ requests[1].url = ExpectedLookupURL
       /\ newIPAMRecord.WorkspaceURL = ExpectedWorkspaceURL(lookup.workspaces[1])
       /\ pc = "submit"
          => /\ req.verb = "POST"
             /\ req.body.WorkspaceURL = ExpectedWorkspaceURL(lookup.workspaces[1])
       /\ \A i \in DOMAIN requests :
            requests[i].verb = "POST"
            => /\ i > 1
               /\ requests[i].hasBody
               /\ requests[i].body.WorkspaceURL
                    = ExpectedWorkspaceURL(lookup.workspaces[1])

C9_Witness ==
    /\ call.op = "create"
    /\ call.record.WorkspaceURL = <<>>
    /\ lookup.workspaces = <<42, 3>>
    /\ Len(requests) >= 2
    /\ requests[2].verb = "POST"
    /\ requests[2].body.WorkspaceURL = ExpectedWorkspaceURL(42)

ExpectedDeleteURL(id) ==
    ServerBase \o <<"/","a","p","i","/","v","3","/","o","n","e","f","u","s","e","/",
                    "i","p","a","m","R","e","s","e","r","v","a","t","i","o","n","s","/">>
        \o (CASE id = 5 -> <<"5">> [] OTHER -> <<"?">>) \o <<"/">>

\* C10 (as claimed): a finished delete call has issued one DELETE to the
\* reservation's item URL and nothing else but status fetches; it returns no
\* error exactly when the last status observed is 'Successful'; a job failure
\* or a timeout reaches the caller as the engine produced it.
C10_DeleteOutcome ==
    call.op = "delete" /\ pc = "done"
    => /\ requests = <<Request("DELETE", ExpectedDeleteURL(call.id))>>
       /\ ~AnyManagedObjectGet
       /\ result.kind = "ok" <=> observed.JobState = JobSuccess
       /\ result.err.kind \in {"job", "timeout"} => result.err.wraps = <<>>

\* a transport error, an HTTP status >= 400 or a body that does not decode
FailedResponse(res) == res.failed \/ res.StatusCode >= 400 \/ ~res.decodable

\* C11 (as claimed): once a request has failed (transport error, status >= 400
\* or undecodable body) the operation is over, with an error returned to the
\* caller, so that no request follows the failed one; a submit that did not
\* succeed is followed by no status fetch; no request is sent twice.
C11_FailureEndsOperation ==
    /\ FailedResponse(lastRes) => pc = "done" /\ result.kind = "error"
    /\ ~SubmitSucceeded => fetches = 0
    /\ \A i, j \in DOMAIN requests : i # j => requests[i] # requests[j]

\* the positions in the log of the POSTs of a create call
CreatePosts ==
    { i \in DOMAIN requests : call.op = "create" /\ requests[i].verb = "POST" }

\* C12 (as claimed): the JSON of every reservation sent in a create POST has
\* exactly one of the keys policyId and policy.
C12_ExactlyOnePolicyReference ==
    \A i \in CreatePosts :
        ("policyId" \in DOMAIN Marshal(requests[i].body))
            # ("policy" \in DOMAIN Marshal(requests[i].body))

\* the item URLs of policy 15 under the two policy collections
Policy15URLs ==
    { ServerBase \o <<"/","a","p","i","/","v","3","/","o","n","e","f","u","s","e","/">>
        \o collection \o <<"/","1","5","/">> :
        collection \in { <<"m","o","d","u","l","e","P","o","l","i","c","i","e","s">>,
                         <<"i","p","a","m","P","o","l","i","c","i","e","s">> } }

\* C13 (as claimed): when a create call is given policy id 15 and no policy
\* URL, the policy in the body of its POST is the item URL of policy 15 under
\* a policy collection, scheme://host:port/api/v3/onefuse/<policies>/15/.
C13_PolicyItemURL ==
    call.op = "create" /\ call.record.PolicyID = 15 /\ call.record.Policy = <<>>
    => \A i \in CreatePosts :
          /\ "policy" \in DOMAIN Marshal(requests[i].body)
          /\ Marshal(requests[i].body)["policy"] \in Policy15URLs

\* C14: an update call issues no request and no status fetch and leaves the
\* resource data as it was; it ends in success when the plan changes no
\* tracked field and in the 'not implemented' error when it changes one.
C14_UpdateSendsNothing ==
    call.op = "update"
    => /\ requests = <<>>
       /\ fetches = 0
       /\ lastRes = NoResponse
       /\ d = call.d
       /\ pc = "done"
          => IF call.d.changed \cap TrackedFields = {}
             THEN result.kind = "ok"
             ELSE /\ result.kind = "error"
                  /\ result.err.msg = "athena.apiClient: Not implemented yet"

C14_Witness ==
    /\ call.op = "update"
    /\ call.d.changed = {"policy_id", "dns_search_suffix"}
    /\ pc = "done"
    /\ result.err.msg = "athena.apiClient: Not implemented yet"

EndsWith(text, suffix) ==
    /\ Len(text) >= Len(suffix)
    /\ SubSeq(text, Len(text) - Len(suffix) + 1, Len(text)) = suffix

\* C16: when a read is answered with a reservation whose policy hyperlink is
\* <prefix>/<id>/ for a non-negative id (absolute or relative prefix, the
\* item URL of the policy in particular), the adapter has set policy_id to
\* that id; .../modulePolicies/42/ gives 42.
C16_PolicyIdReadBack ==
    call.op = "read"
    => /\ \A id \in (0..MaxPolicyLinkId) \cup {42} :
            /\ EndsWith(served.Links.Policy, <<"/">> \o Itoa(id) \o <<"/">>)
               => d.policy_id = id /\ result = Returned(NilError, ZeroReservation)
            /\ served.Links.Policy = itemURL(Config, ModulePolicyResourceType, id)
               => d.policy_id = id
       /\ EndsWith(served.Links.Policy,
                   <<"/","m","o","d","u","l","e","P","o","l","i","c","i","e","s","/",
                     "4","2","/">>)
          => d.policy_id = 42

C16_Witness ==
    /\ call.op = "read"
    /\ call.d.policy_id = 15
    /\ served.Links.Policy = ModulePolicy42Href
    /\ pc = "done"
    /\ d.policy_id = 42

ExpectedTemplateTesterURL ==
    ServerBase \o <<"/","a","p","i","/","v","3","/","o","n","e","f","u","s","e","/",
                    "t","e","m","p","l","a","t","e","T","e","s","t","e","r","/">>

\* C17: a read or render call goes from its start straight to its end: it
\* issues no status fetch, takes no sleep and issues no managed-object GET;
\* when it has ended, on success or on failure, it has issued exactly one
\* request: a read a GET to the item URL of its reservation, a render a POST
\* to the templateTester collection.
C17_NoJobProtocol ==
    call.op \in {"read", "render"}
    => /\ fetches = 0
       /\ fetchURLs = {}
       /\ sleeps = 0
       /\ ~AnyManagedObjectGet
       /\ pc \in {"call", "done"}
       /\ pc = "call" => requests = <<>>
       /\ pc = "done"
          => /\ Len(requests) = 1
             /\ call.op = "read"
                => /\ requests[1].verb = "GET"
                   /\ requests[1].url = ExpectedDeleteURL(5)
             /\ call.op = "render"
                => /\ requests[1].verb = "POST"
                   /\ requests[1].url = ExpectedTemplateTesterURL

C17_Witness ==
    /\ call.op = "render"
    /\ pc = "done"
    /\ result.kind = "ok"
    /\ Len(requests) = 1
    /\ requests[1].verb = "POST"

StartsWith(text, prefix) ==
    /\ Len(text) >= Len(prefix)
    /\ SubSeq(text, 1, Len(prefix)) = prefix

\* C18: in a create call given a workspace URL, no request goes to the
\* workspaces collection, the record keeps the URL, and the POST (as built
\* and as sent) carries it as its workspace.
C18_GivenWorkspaceKept ==
    call.op = "create" /\ call.record.WorkspaceURL # <<>>
    => /\ ~lookup.made
       /\ \A i \in DOMAIN requests : ~StartsWith(requests[i].url, WorkspacesCollection)
       /\ newIPAMRecord.WorkspaceURL = call.record.WorkspaceURL
       /\ pc = "submit" => req.body.WorkspaceURL = call.record.WorkspaceURL
       /\ \A i \in CreatePosts :
            /\ "workspace" \in DOMAIN Marshal(requests[i].body)
            /\ Marshal(requests[i].body)["workspace"] = call.record.WorkspaceURL

C18_Witness ==
    /\ call.op = "create"
    /\ call.record.WorkspaceURL = GivenWorkspaceURL
    /\ requests # <<>>
    /\ requests[1].verb = "POST"
    /\ requests[1].body.WorkspaceURL = GivenWorkspaceURL

\* C20: whatever the job's status sequence (one that never becomes terminal
\* included), when every fetch gets its answer the operation comes to its
\* end, and it never issues more than 3,600,000 / 5000 + 1 = 721 status
\* fetches; after n sleeps at least n * 5000 ms have passed.
C20_PollTerminates ==
    /\ [](fetches <= 721)
    /\ [](fetches <= (PollingTimeoutMS \div PollingIntervalMS) + 1)
    /\ [](elapsed >= sleeps * 5000)
    /\ <>(pc = "done")

C20_Witness ==
    /\ firstTerminal = 0
    /\ fetches = 721
    /\ sleeps = 721
    /\ pc = "done"

\* what a call of the job protocol returns when it runs alone: r is the
\* outcome for operation op whose last response was res, whose clock stands
\* at sinceStart, whose job has the id jobId and was last served as status
OutcomeAlone(op, res, sinceStart, jobId, status, r) ==
    IF FailedResponse(res) THEN
        \/ r.kind = "error" /\ RequestFailed(r.err) /\ r.entity = ZeroReservation
        \/ r = Panicked /\ op = "delete" /\ status.nil
    ELSE IF sinceStart > PollingTimeoutMS THEN
        r = Returned(TimeoutError, ZeroReservation)
    ELSE IF status.JobState = JobSuccess THEN
        IF op = "delete" THEN r = Returned(NilError, ZeroReservation)
        ELSE IF status.Links.nil THEN r = Panicked
        ELSE r.kind = "ok" /\ r.entity \in ServerEntities
    ELSE
        /\ status.JobState = JobFailed
        /\ IF status.ErrorDetails.nil \/ status.ErrorDetails.errorsNil THEN r = Panicked
           ELSE /\ r.kind = "error"
                /\ r.err.kind = "job"
                /\ r.err.jobType = status.JobType
                /\ Atoi(r.err.jobID) = [ok |-> TRUE, val |-> jobId]
                /\ r.err.errors = status.ErrorDetails.Errors
                /\ r.entity = ZeroReservation

\* each call's frame follows its own job: its fetch count is the number of
\* fetches the server saw for its job, the status it holds is the one last
\* served for its job, and what it returns is what it returns alone
ConcOwnOutcome ==
    \A p \in Procs :
        LET frame == conc.frames[p]
            job   == conc.jobs[p]
        IN  /\ frame.fetches = job.fetched
            /\ frame.sleeps <= frame.fetches
            /\ frame.pc \in {"sleep", "poll", "resolve"} /\ job.fetched >= 1
               => /\ frame.jobStatus = job.served
                  /\ frame.jobStatusDescription = job.served.JobState
            /\ IsTerminal(frame.jobStatusDescription)
               => frame.fetches = job.firstTerminal
            /\ frame.pc = "done"
               => OutcomeAlone(frame.op, job.lastRes, frame.elapsed, JobIdOf(p),
                               job.served, frame.result)

EngineEnded ==
    /\ call.op \in {"create", "delete"}
    /\ \E i \in DOMAIN requests : Mutating(requests[i].verb)
    /\ pc \in {"resolve", "done"}

ReturnedStatusNoError ==
    /\ asyncReturn.kind = "returned"
    /\ asyncReturn.err = NilError
    /\ ~asyncReturn.jobStatus.nil

LastFetchSuccessfulInTime ==
    /\ fetches >= 1
    /\ observed.JobState = JobSuccess
    /\ elapsed <= 3600000

\* C21 (as claimed): once handleAsyncRequest has ended, it has returned a nil
\* error together with a job status if and only if the last status fetched
\* is 'Successful' and the loop did not time out; in every other outcome it
\* has returned an error and no status, no managed-object GET is issued and
\* the caller gets an error and no entity.
C21_NilErrorIffSuccessful ==
    EngineEnded
    => /\ ReturnedStatusNoError <=> LastFetchSuccessfulInTime
       /\ ReturnedStatusNoError => asyncReturn.jobStatus = observed
       /\ ~LastFetchSuccessfulInTime
          => /\ asyncReturn.kind = "returned"
             /\ asyncReturn.err # NilError
             /\ asyncReturn.jobStatus.nil
             /\ result = Returned(asyncReturn.err, ZeroReservation)
             /\ ~AnyManagedObjectGet

ExpectedJobStatusURL(id) ==
    ServerBase \o <<"/","a","p","i","/","v","3","/","o","n","e","f","u","s","e","/",
                    "j","o","b","S","t","a","t","u","s","/">>
        \o (CASE id = 7 -> <<"7">> [] id = 12 -> <<"1","2">> [] OTHER -> <<"?">>)
        \o <<"/">>

\* C22: every status fetch of a run goes to
\* scheme://host:port/api/v3/onefuse/jobStatus/<id>/ for the one id decoded
\* from the submit response: no fetch is issued before the submit succeeded,
\* the set of fetched URLs has that single member, and the polled id, once
\* set from the submit response, never changes, whatever id the fetched
\* statuses carry.
C22_SingleJobPolled ==
    /\ [](/\ fetches = 0 => fetchURLs = {}
          /\ fetches >= 1 => SubmitSucceeded /\ fetchURLs = {ExpectedJobStatusURL(jobID)})
    /\ [][/\ pc = "submit" /\ jobID' # jobID => jobID' = jobStatus'.ID
          /\ pc # "submit" => jobID' = jobID]_vars

C22_Witness ==
    /\ jobID = 7
    /\ fetches = 3
    /\ observed.ID = 12
    /\ fetchURLs = {ExpectedJobStatusURL(7)}

Sent(verb) == Cardinality({ i \in DOMAIN requests : requests[i].verb = verb })

\* C23: a create call issues at most one POST and no PUT or DELETE, a delete
\* call at most one DELETE and no POST or PUT, and every other request of
\* either is a GET; a create whose job succeeded and whose managed-object GET
\* failed ends with that GET as its last request and an error, and a
\* finished operation sends nothing more.
C23_MutatingAtMostOnce ==
    /\ [](/\ call.op = "create"
             => Sent("POST") <= 1 /\ Sent("PUT") = 0 /\ Sent("DELETE") = 0
          /\ call.op = "delete"
             => Sent("DELETE") <= 1 /\ Sent("POST") = 0 /\ Sent("PUT") = 0
          /\ call.op \in {"create", "delete"}
             => Sent("GET") + Sent("POST") + Sent("DELETE") = Len(requests)
          /\ call.op = "create" /\ pc = "done" /\ AnyManagedObjectGet
                /\ result.kind = "error"
             => /\ requests[Len(requests)].verb = "GET"
                /\ Sent("POST") = 1
                /\ Sent("DELETE") = 0)
    /\ [][pc = "done" => UNCHANGED <<requests, fetches>>]_vars

C23_Witness ==
    /\ call.op = "create"
    /\ pc = "done"
    /\ observed.JobState = JobSuccess
    /\ AnyManagedObjectGet
    /\ result.kind = "error"
    /\ RequestFailed(result.err)
    /\ Sent("POST") = 1
    /\ Sent("DELETE") = 0

\* C24 (as claimed): when polling ended within the budget on a 'Failed'
\* status without error details (errorDetails or its errors list absent),
\* the finished operation has returned a job-failure error; when it ended
\* on a 'Successful' status without links, the finished create has returned
\* an error; neither aborts.
C24_MissingFieldsYieldErrors ==
    pc = "done" /\ fetches >= 1 /\ result.err # TimeoutError
    => /\ observed.JobState = JobFailed
            /\ (observed.ErrorDetails.nil \/ observed.ErrorDetails.errorsNil)
          => /\ result.kind = "error"
             /\ result.err.kind = "job"
       /\ call.op = "create" /\ observed.JobState = JobSuccess /\ observed.Links.nil
          => result.kind = "error"
====
